---- MODULE Spec2Model ----
(***************************************************************************)
(* Acoustic modem of anon_num.py: a file is turned into a string of '0'    *)
(* and '1', framed with a 32 digit length header, modulated one bit per    *)
(* symbol on cyclically chosen carriers, and recovered from a WAV file by  *)
(* correlation, header parsing and byte reassembly.                        *)
(*                                                                         *)
(* Numbers.  Python floats are modelled by integers: a sine value is the   *)
(* integer nearest to SinScale * sin(x), computed with Bhaskara's rational *)
(* approximation (exact at 0, 1/4, 1/2 turn; the sign is exact for every   *)
(* rational phase).  Bit strings are sequences of the characters "0", "1". *)
(***************************************************************************)
EXTENDS Integers, Sequences, FiniteSets

\* --- Parameters (anon_num.py lines 9-11) ---
SAMPLE_RATE == 19000
SYMBOL_RATE == 50
CARRIER_FREQS == <<1000, 2000, 3000, 4000, 5000, 6000>>

\* Width of the length header, the '032b' of format() and the 32 of the slices.
HeaderBits == 32
\* Width of one byte, the '08b' of format() and the 8 of the slices.
ByteBits == 8
\* Full scale of a signed 16 bit PCM sample.
PcmPeak == 32767
\* Integer resolution of a modelled sine value.
SinScale == 100

\* ------------------------------------------------------------------------
\* Arithmetic helpers
\* ------------------------------------------------------------------------
Abs(x) == IF x < 0 THEN -x ELSE x

\* Conversion of a float to an integer type: truncation toward zero.
TruncDiv(a, b) == IF a < 0 THEN -((-a) \div b) ELSE a \div b

RECURSIVE GCD(_, _)
GCD(a, b) == IF b = 0 THEN a ELSE GCD(b, a % b)

\* Bhaskara's approximation of SinScale * sin(2 pi a / d) for 0 <= 2a <= d,
\* rounded to the nearest integer.
HalfWave(a, d) ==
  LET p == 32 * a * (d - 2 * a)
      q == 5 * d * d - 8 * a * (d - 2 * a)
  IN  (2 * SinScale * p + q) \div (2 * q)

\* np.sin(2 * pi * num / den), scaled by SinScale.
Sin(num, den) ==
  LET g == GCD(num, den)
      d == den \div g
      a == (num \div g) % d
  IN  IF 2 * a <= d THEN HalfWave(a, d) ELSE -HalfWave(d - a, d)

\* ------------------------------------------------------------------------
\* Strings of binary digits
\* ------------------------------------------------------------------------
RECURSIVE Digits(_)
\* The binary digits of n, most significant first, without padding ("0" for 0).
Digits(n) ==
  IF n < 2 THEN << (IF n = 1 THEN "1" ELSE "0") >>
  ELSE Append(Digits(n \div 2), IF n % 2 = 1 THEN "1" ELSE "0")

\* Mutant of Format: format(n, 'b'), the zero padding forgotten.
FormatUnpadded(n, width) == Digits(n)

\* format(n, '0<width>b'): zero padded on the left to at least width digits.
Format(n, width) ==
  LET ds == Digits(n)
  IN  IF Len(ds) >= width THEN ds
      ELSE [i \in 1..(width - Len(ds)) |-> "0"] \o ds

RECURSIVE ParseBin(_)
\* int(s, 2) for a non-empty string of binary digits.
ParseBin(s) ==
  IF Len(s) = 0 THEN 0
  ELSE 2 * ParseBin(SubSeq(s, 1, Len(s) - 1)) + (IF s[Len(s)] = "1" THEN 1 ELSE 0)

\* Python slice s[lo:hi] for 0 <= lo, 0 <= hi: clipped to the string.
Slice(s, lo, hi) ==
  LET h == IF hi > Len(s) THEN Len(s) ELSE hi
  IN  IF lo >= h THEN << >> ELSE SubSeq(s, lo + 1, h)

RECURSIVE JoinRange(_, _, _)
\* The concatenation of parts[lo..hi] (by halves).
JoinRange(parts, lo, hi) ==
  IF lo > hi THEN << >>
  ELSE IF lo = hi THEN parts[lo]
  ELSE LET mid == (lo + hi) \div 2
       IN  JoinRange(parts, lo, mid) \o JoinRange(parts, mid + 1, hi)

\* ''.join(parts) / np.concatenate(parts): the parts in order.
Join(parts) == JoinRange(parts, 1, Len(parts))

\* ------------------------------------------------------------------------
\* Helper functions of the program
\* ------------------------------------------------------------------------
\* range(0, n, 8)
ChunkStarts(n) == { i \in 0..(n - 1) : i % ByteBits = 0 }

\* binary_to_bytes: one byte per group of up to 8 digits, in order.
binary_to_bytes(binary_str) ==
  [k \in 1..Cardinality(ChunkStarts(Len(binary_str))) |->
     ParseBin(Slice(binary_str, ByteBits * (k - 1), ByteBits * (k - 1) + ByteBits))]

\* file_to_binary, after the file was read: 8 digits per byte.
file_to_binary(file_bytes) ==
  Join([k \in 1..Len(file_bytes) |-> Format(file_bytes[k], ByteBits)])

\* ------------------------------------------------------------------------
\* Modulation / demodulation
\* ------------------------------------------------------------------------
\* int(rate / SYMBOL_RATE)
SamplesPerSymbol(rate) == rate \div SYMBOL_RATE

\* np.sin(2 * np.pi * f * t_symbol) with
\* t_symbol = np.linspace(0, 1/SYMBOL_RATE, samples_per_symbol, endpoint=False):
\* sample n (0-based) lies at time n / (SYMBOL_RATE * samples_per_symbol).
SineWave(f, samples_per_symbol) ==
  [n \in 1..samples_per_symbol |->
     Sin(f * (n - 1), SYMBOL_RATE * samples_per_symbol)]

\* Mutant of TxCarrier: the modulator stays on the first carrier.
TxCarrierFixed(i) == CARRIER_FREQS[1]

\* Carrier of symbol i (0-based) in the modulator: CARRIER_FREQS[i % len(CARRIER_FREQS)].
TxCarrier(i) == CARRIER_FREQS[(i % Len(CARRIER_FREQS)) + 1]

\* Mutant of RxCarrier: the demodulator stays on the first carrier.
RxCarrierFixed(i) == CARRIER_FREQS[1]

\* Carrier of symbol i (0-based) in the demodulator.
RxCarrier(i) == CARRIER_FREQS[(i % Len(CARRIER_FREQS)) + 1]

\* The carriers the modulator walks through for a bit string.
TxFreqs(binary_data) == [k \in 1..Len(binary_data) |-> TxCarrier(k - 1)]

\* max(abs(signal)) of a non-empty signal.
PeakOf(signal) ==
  LET mags == { Abs(signal[j]) : j \in 1..Len(signal) }
  IN  CHOOSE m \in mags : \A x \in mags : x <= m

\* np.concatenate(symbols): a ValueError when there is no array to concatenate.
Concatenate(symbols) ==
  IF Len(symbols) = 0 THEN [ok |-> FALSE, error |-> "ValueError"]
  ELSE [ok |-> TRUE, value |-> Join(symbols)]

\* The body of encode_rdft for a sampling rate: one symbol per bit, the
\* carrier's sine for '1' and its negation for '0', normalised to the peak
\* and converted to int16.
Modulate(binary_data, rate) ==
  LET samples_per_symbol == SamplesPerSymbol(rate)
      sine_waves == [c \in 1..Len(CARRIER_FREQS) |->
                       SineWave(CARRIER_FREQS[c], samples_per_symbol) \o << >>]
      waveOf(f) == sine_waves[CHOOSE c \in 1..Len(CARRIER_FREQS) : CARRIER_FREQS[c] = f]
      symbols == [k \in 1..Len(binary_data) |->
                    LET symbol_wave == waveOf(TxCarrier(k - 1))
                    IN  IF binary_data[k] = "0"
                        THEN [n \in 1..samples_per_symbol |-> -symbol_wave[n]]
                        ELSE symbol_wave]
      modulated == Concatenate(symbols)
  IN  IF ~modulated.ok THEN modulated
      ELSE LET signal == modulated.value
               peak == PeakOf(signal)
           IN  [ok |-> TRUE,
                value |-> [j \in 1..Len(signal) |->
                             IF peak # 0
                             THEN TruncDiv(signal[j] * PcmPeak, peak)
                             ELSE TruncDiv(signal[j] * PcmPeak, SinScale)]]

\* encode_rdft: the modulator at the program's sampling rate.
encode_rdft(binary_data) == Modulate(binary_data, SAMPLE_RATE)

RECURSIVE DotRange(_, _, _, _)
\* The sum of segment[n] * expected_wave[n] for n in lo..hi (by halves).
DotRange(segment, expected_wave, lo, hi) ==
  IF lo > hi THEN 0
  ELSE IF lo = hi THEN segment[lo] * expected_wave[lo]
  ELSE LET mid == (lo + hi) \div 2
       IN  DotRange(segment, expected_wave, lo, mid)
           + DotRange(segment, expected_wave, mid + 1, hi)

\* np.dot(segment, expected_wave)
Dot(segment, expected_wave) == DotRange(segment, expected_wave, 1, Len(segment))

\* Mutant of NumSymbols: off by one, the last whole symbol dropped.
NumSymbolsShort(len, samples_per_symbol) == (len - 1) \div samples_per_symbol

\* len(data) // samples_per_symbol
NumSymbols(len, samples_per_symbol) == len \div samples_per_symbol

\* bit = '1' if corr >= 0 else '0'
Decide(corr) == IF corr >= 0 THEN "1" ELSE "0"

\* decode_rdft on what wav.read returned: a RuntimeError for an unreadable
\* file, a ZeroDivisionError when samples_per_symbol is 0, else one decided
\* bit per whole symbol.
decode_rdft(wav_file) ==
  IF ~wav_file.readable THEN [ok |-> FALSE, error |-> "RuntimeError"]
  ELSE
    LET rate == wav_file.rate
        data == wav_file.data
        samples_per_symbol == SamplesPerSymbol(rate)
    IN  IF samples_per_symbol = 0 THEN [ok |-> FALSE, error |-> "ZeroDivisionError"]
        ELSE
          LET num_symbols == NumSymbols(Len(data), samples_per_symbol)
              expected == [c \in 1..Len(CARRIER_FREQS) |->
                             SineWave(CARRIER_FREQS[c], samples_per_symbol) \o << >>]
              waveOf(f) == expected[CHOOSE c \in 1..Len(CARRIER_FREQS) : CARRIER_FREQS[c] = f]
          IN  [ok |-> TRUE,
               value |-> [i \in 1..num_symbols |->
                   LET segment == SubSeq(data, (i - 1) * samples_per_symbol + 1,
                                               i * samples_per_symbol)
                       expected_wave == waveOf(RxCarrier(i - 1))
                   IN  Decide(Dot(segment, expected_wave))]]

\* if rate != SAMPLE_RATE: print("Warning: ...", file=sys.stderr)
RateWarning(wav_file) == wav_file.readable /\ wav_file.rate # SAMPLE_RATE

\* The carriers the demodulator walks through for num_symbols symbols.
RxFreqs(num_symbols) == [k \in 1..num_symbols |-> RxCarrier(k - 1)]

\* ------------------------------------------------------------------------
\* Messages of the front ends (print in the CLI, status_label in the GUI)
\* ------------------------------------------------------------------------
MsgTransmitted == "File transmitted: rdft_transmission.wav"
MsgReadError == "Error: "
MsgEncodeError == "Error during encoding/writing: "
MsgDecodeError == "Error during decoding: "
MsgTooShort == "Decoded data too short to contain header."
MsgUnaligned == "Payload length is not a multiple of 8."
MsgDecoded == "File decoded: decoded_output.txt"

\* The error kinds of the specification, as the front ends report them.
TruncatedHeaderError == MsgTooShort
UnalignedPayloadError == MsgUnaligned

\* ------------------------------------------------------------------------
\* State
\* ------------------------------------------------------------------------
VARIABLES
  wavFile,   \* rdft_transmission.wav: what wav.read would return for it
  outFile,   \* decoded_output.txt
  status,    \* the last message shown to the user
  call,      \* the last handler that ran, with its local variables
  sent,      \* history: the bytes, bit string and carriers of the last transmission
  unit       \* the last direct call of one of the functions, with its result

vars == << wavFile, outFile, status, call, sent, unit >>

\* A file that cannot be opened / parsed.
Unreadable == [readable |-> FALSE]
NoOutput == [exists |-> FALSE, bytes |-> << >>]
NoCall == [op |-> "none"]
NothingSent == [valid |-> FALSE]

\* ------------------------------------------------------------------------
\* Inputs
\* ------------------------------------------------------------------------
\* Longest file, in bytes, handed to the encoder.
MaxBytes == 1
\* Largest payload length a recording's header declares, and the most payload
\* bits a recording carries after its header.
MaxDeclared == 8
MaxAvail == 12

\* Byte values of the files handed to the encoder: 'A' and all bits set.
ByteChoices == {65, 255}

RECURSIVE SeqsUpTo(_, _)
\* The sequences over S of length at most n.
SeqsUpTo(S, n) ==
  IF n = 0 THEN { << >> }
  ELSE LET shorter == SeqsUpTo(S, n - 1)
       IN  shorter \cup { Append(t, x) : t \in { u \in shorter : Len(u) = n - 1 }, x \in S }

ByteSeqs == SeqsUpTo(ByteChoices, MaxBytes)

\* The files a user can pick for transmission.
SourceFiles == { [readable |-> TRUE, bytes |-> B] : B \in ByteSeqs } \cup { Unreadable }

\* A rate other than SAMPLE_RATE with whole symbols (19 samples each), one
\* with one sample per symbol, and one below SYMBOL_RATE.
OtherRate == SAMPLE_RATE \div 20
SymbolRateOnly == SYMBOL_RATE
SlowRate == SYMBOL_RATE \div 2

\* Payload bits of a recording: 1, 1, 0, 1, 1, 0, ...
Pattern(n) == [i \in 1..n |-> IF i % 3 = 0 THEN "0" ELSE "1"]

\* A WAV file holding the given bits as the modulator lays them out at a rate,
\* followed by trail extra samples.
Recording(bits, rate, trail) ==
  [readable |-> TRUE, rate |-> rate,
   data |-> (IF Len(bits) = 0 THEN << >> ELSE Modulate(bits, rate).value)
            \o [i \in 1..trail |-> PcmPeak]]

\* Recordings of a header declaring L payload bits followed by a payload bits.
FrameRecordings ==
  { Recording(Format(L, HeaderBits) \o Pattern(a), OtherRate, 0) :
      L \in { n \in 0..MaxDeclared : n % 4 = 0 },
      a \in { n \in 0..MaxAvail : n % 4 = 0 } }

\* Recordings too short to hold a header.
ShortRecordings ==
  { Recording(Pattern(n), OtherRate, 0) : n \in {0, 1, HeaderBits - 1} }

\* Files whose rate gives one sample per symbol, or none.
RawRecordings ==
  { [readable |-> TRUE, rate |-> r, data |-> << PcmPeak, -PcmPeak, 0 >>] :
      r \in {SymbolRateOnly, SlowRate} }

\* The WAV files a user can pick besides the program's own output.
ExternalWavs == FrameRecordings \cup ShortRecordings \cup RawRecordings \cup { Unreadable }

\* ------------------------------------------------------------------------
\* Encoding handlers
\* ------------------------------------------------------------------------
\* Mutant of BuildFrame: the header counts bytes instead of bits.
BuildFrameBytes(payload_binary) ==
  Format(Len(payload_binary) \div ByteBits, HeaderBits) \o payload_binary

\* header = format(len(payload_binary), '032b'); binary_data = header + payload_binary
BuildFrame(payload_binary) == Format(Len(payload_binary), HeaderBits) \o payload_binary


\* What --encode leaves behind for a file: the message and, when it got that
\* far, the bit string and the WAV file written.
main_encode_run(file) ==
  IF ~file.readable
  THEN [status |-> MsgReadError, written |-> FALSE]
  ELSE LET payload_binary == file_to_binary(file.bytes)
           binary_data == BuildFrame(payload_binary)
           modulated_signal == encode_rdft(binary_data)
       IN  IF ~modulated_signal.ok
           THEN [status |-> MsgEncodeError, written |-> FALSE]
           ELSE [status |-> MsgTransmitted, written |-> TRUE,
                 binary_data |-> binary_data,
                 wav |-> [readable |-> TRUE, rate |-> SAMPLE_RATE,
                          data |-> modulated_signal.value]]

\* The same for browse_file, whose single try reports every failure alike.
browse_file_run(file) ==
  IF ~file.readable
  THEN [status |-> MsgReadError, written |-> FALSE]
  ELSE LET payload_binary == file_to_binary(file.bytes)
           binary_data == BuildFrame(payload_binary)
           modulated_signal == encode_rdft(binary_data)
       IN  IF ~modulated_signal.ok
           THEN [status |-> MsgReadError, written |-> FALSE]
           ELSE [status |-> MsgTransmitted, written |-> TRUE,
                 binary_data |-> binary_data,
                 wav |-> [readable |-> TRUE, rate |-> SAMPLE_RATE,
                          data |-> modulated_signal.value]]

\* The encoding runs, tabulated over the files a user can pick.
main_encode_of == [file \in SourceFiles |-> main_encode_run(file)]
browse_file_of == [file \in SourceFiles |-> browse_file_run(file)]

\* main() with --encode.
main_encode ==
  \E file \in SourceFiles :
    \E run \in { main_encode_of[file] } :
        /\ status' = run.status
        /\ call' = [op |-> "encode", ui |-> "cli", readable |-> file.readable]
        /\ IF run.written
           THEN /\ wavFile' = run.wav
                /\ sent' = [valid |-> TRUE, bytes |-> file.bytes,
                            binary_data |-> run.binary_data,
                            freqs |-> TxFreqs(run.binary_data)]
           ELSE UNCHANGED << wavFile, sent >>
        /\ UNCHANGED << outFile, unit >>

\* browse_file() with a file chosen in the dialog.
browse_file ==
  \E file \in SourceFiles :
    \E run \in { browse_file_of[file] } :
        /\ status' = run.status
        /\ call' = [op |-> "encode", ui |-> "gui", readable |-> file.readable]
        /\ IF run.written
           THEN /\ wavFile' = run.wav
                /\ sent' = [valid |-> TRUE, bytes |-> file.bytes,
                            binary_data |-> run.binary_data,
                            freqs |-> TxFreqs(run.binary_data)]
           ELSE UNCHANGED << wavFile, sent >>
        /\ UNCHANGED << outFile, unit >>

\* ------------------------------------------------------------------------
\* Decoding handlers
\* ------------------------------------------------------------------------
\* header = decoded_binary[:32]; payload_length = int(header, 2);
\* payload = decoded_binary[32:32+payload_length]
ParseFrame(decoded_binary) ==
  LET header == Slice(decoded_binary, 0, HeaderBits)
      payload_length == ParseBin(header)
  IN  [payload_length |-> payload_length,
       payload |-> Slice(decoded_binary, HeaderBits, HeaderBits + payload_length)]

\* A decoding run that ended before the header was parsed.
Stopped(msg, decoded) ==
  [status |-> msg, decoded |-> decoded, parsed |-> FALSE, payload_length |-> 0,
   payload |-> << >>, packed |-> FALSE, wrote |-> FALSE, output_bytes |-> << >>]

\* Mutant of main_decode_run: the check for a whole header forgotten.
main_decode_run_unchecked(wav_file) ==
  LET decoded == decode_rdft(wav_file)
  IN  IF ~decoded.ok THEN Stopped(MsgDecodeError, decoded)
      ELSE LET frame == ParseFrame(decoded.value)
           IN  IF frame.payload_length % ByteBits # 0
               THEN [status |-> MsgUnaligned, decoded |-> decoded, parsed |-> TRUE,
                     payload_length |-> frame.payload_length, payload |-> frame.payload,
                     packed |-> FALSE, wrote |-> FALSE, output_bytes |-> << >>]
               ELSE [status |-> MsgDecoded, decoded |-> decoded, parsed |-> TRUE,
                     payload_length |-> frame.payload_length, payload |-> frame.payload,
                     packed |-> TRUE, wrote |-> TRUE,
                     output_bytes |-> binary_to_bytes(frame.payload)]

\* What --decode leaves behind for a WAV file: the message, the demodulator's
\* result, whether the header was parsed, whether binary_to_bytes was called
\* (on payload), and whether decoded_output.txt was written.
main_decode_run(wav_file) ==
  LET decoded == decode_rdft(wav_file)
  IN  IF ~decoded.ok THEN Stopped(MsgDecodeError, decoded)
      ELSE IF Len(decoded.value) < HeaderBits THEN Stopped(MsgTooShort, decoded)
      ELSE LET frame == ParseFrame(decoded.value)
           IN  IF frame.payload_length % ByteBits # 0
               THEN [status |-> MsgUnaligned, decoded |-> decoded, parsed |-> TRUE,
                     payload_length |-> frame.payload_length, payload |-> frame.payload,
                     packed |-> FALSE, wrote |-> FALSE, output_bytes |-> << >>]
               ELSE [status |-> MsgDecoded, decoded |-> decoded, parsed |-> TRUE,
                     payload_length |-> frame.payload_length, payload |-> frame.payload,
                     packed |-> TRUE, wrote |-> TRUE,
                     output_bytes |-> binary_to_bytes(frame.payload)]

\* Mutant of browse_wav_run: the check of the payload length forgotten.
browse_wav_run_unchecked(wav_file) ==
  LET decoded == decode_rdft(wav_file)
  IN  IF ~decoded.ok THEN Stopped(MsgDecodeError, decoded)
      ELSE IF Len(decoded.value) < HeaderBits THEN Stopped(MsgTooShort, decoded)
      ELSE LET frame == ParseFrame(decoded.value)
           IN  [status |-> MsgDecoded, decoded |-> decoded, parsed |-> TRUE,
                payload_length |-> frame.payload_length, payload |-> frame.payload,
                packed |-> TRUE, wrote |-> TRUE,
                output_bytes |-> binary_to_bytes(frame.payload)]

\* The same for browse_wav.
browse_wav_run(wav_file) ==
  LET decoded == decode_rdft(wav_file)
  IN  IF ~decoded.ok THEN Stopped(MsgDecodeError, decoded)
      ELSE IF Len(decoded.value) < HeaderBits THEN Stopped(MsgTooShort, decoded)
      ELSE LET frame == ParseFrame(decoded.value)
           IN  IF frame.payload_length % ByteBits # 0
               THEN [status |-> MsgUnaligned, decoded |-> decoded, parsed |-> TRUE,
                     payload_length |-> frame.payload_length, payload |-> frame.payload,
                     packed |-> FALSE, wrote |-> FALSE, output_bytes |-> << >>]
               ELSE [status |-> MsgDecoded, decoded |-> decoded, parsed |-> TRUE,
                     payload_length |-> frame.payload_length, payload |-> frame.payload,
                     packed |-> TRUE, wrote |-> TRUE,
                     output_bytes |-> binary_to_bytes(frame.payload)]

\* The decoding runs, tabulated over the WAV files a user can pick: the files
\* the encoder writes and the external ones.
OwnWavs ==
  { main_encode_of[file].wav : file \in SourceFiles \ { Unreadable } }
    \cup { browse_file_of[file].wav : file \in SourceFiles \ { Unreadable } }
main_decode_of == [wav_file \in OwnWavs \cup ExternalWavs |-> main_decode_run(wav_file)]
browse_wav_of == [wav_file \in OwnWavs \cup ExternalWavs |-> browse_wav_run(wav_file)]

\* The record of a decoding handler's run.  own: the file decoded is the
\* program's rdft_transmission.wav.
DecodeCall(ui, own, wav_file, run) ==
  [op |-> "decode", ui |-> ui, own |-> own,
   readable |-> wav_file.readable,
   rate |-> IF wav_file.readable THEN wav_file.rate ELSE 0,
   samples |-> IF wav_file.readable THEN Len(wav_file.data) ELSE 0,
   warned |-> RateWarning(wav_file),
   freqs |-> IF run.decoded.ok THEN RxFreqs(Len(run.decoded.value)) ELSE << >>,
   run |-> run]

\* open('decoded_output.txt', 'wb').write(output_bytes), when the run got there.
Written(run, file) ==
  IF run.wrote THEN [exists |-> TRUE, bytes |-> run.output_bytes] ELSE file

\* main() with --decode, on the program's own output or on another file.
main_decode ==
  \/ \E run \in { main_decode_of[wavFile] } :
         /\ status' = run.status
         /\ call' = DecodeCall("cli", TRUE, wavFile, run)
         /\ outFile' = Written(run, outFile)
         /\ UNCHANGED << wavFile, sent, unit >>
  \/ \E wav_file \in ExternalWavs :
       \E run \in { main_decode_of[wav_file] } :
           /\ status' = run.status
           /\ call' = DecodeCall("cli", FALSE, wav_file, run)
           /\ outFile' = Written(run, outFile)
           /\ UNCHANGED << wavFile, sent, unit >>

\* browse_wav() with a file chosen in the dialog.
browse_wav ==
  \/ \E run \in { browse_wav_of[wavFile] } :
         /\ status' = run.status
         /\ call' = DecodeCall("gui", TRUE, wavFile, run)
         /\ outFile' = Written(run, outFile)
         /\ UNCHANGED << wavFile, sent, unit >>
  \/ \E wav_file \in ExternalWavs :
       \E run \in { browse_wav_of[wav_file] } :
           /\ status' = run.status
           /\ call' = DecodeCall("gui", FALSE, wav_file, run)
           /\ outFile' = Written(run, outFile)
           /\ UNCHANGED << wavFile, sent, unit >>

\* A file dialog closed without a choice: browse_file and browse_wav do nothing.
dialog_cancelled == UNCHANGED vars

Init ==
  /\ wavFile = Unreadable
  /\ outFile = NoOutput
  /\ status = ""
  /\ call = NoCall
  /\ sent = NothingSent
  /\ unit = NoCall

Next == main_encode \/ browse_file \/ main_decode \/ browse_wav \/ dialog_cancelled

Spec == Init /\ [][Next]_vars

\* ------------------------------------------------------------------------
\* The functions called on their own
\* ------------------------------------------------------------------------
\* Longest byte string over ByteChoices, longest bit string, and most trailing
\* samples handed to the functions directly.
MaxUnitBytes == 2
MaxUnitBits == 3
MaxTrail == 3

\* Every single byte, and the longer strings over ByteChoices.
UnitBytes == { << b >> : b \in 0..255 } \cup SeqsUpTo(ByteChoices, MaxUnitBytes)

\* Every bit string up to MaxUnitBits digits, the empty one included.
UnitBits == SeqsUpTo({"0", "1"}, MaxUnitBits)

\* Sample buffers: each bit string at each rate, followed by fewer samples
\* than one symbol takes.
UnitWavs ==
  { Recording(bits, rate, trail) :
      bits \in UnitBits, rate \in {SAMPLE_RATE, OtherRate},
      trail \in 0..MaxTrail }
  \cup { Recording(bits, SymbolRateOnly, 0) : bits \in UnitBits }

\* file_to_binary(B)
unit_file_to_binary ==
  /\ unit = NoCall
  /\ \E B \in UnitBytes :
       unit' = [fn |-> "file_to_binary", arg |-> B, ret |-> file_to_binary(B), src |-> B]
  /\ UNCHANGED << wavFile, outFile, status, call, sent >>

\* binary_to_bytes on the bit string file_to_binary returned.
unit_binary_to_bytes ==
  /\ unit # NoCall
  /\ unit.fn = "file_to_binary"
  /\ unit' = [fn |-> "binary_to_bytes", arg |-> unit.ret,
              ret |-> binary_to_bytes(unit.ret), src |-> unit.src]
  /\ UNCHANGED << wavFile, outFile, status, call, sent >>

\* The frame built around the bit string file_to_binary returned.
unit_BuildFrame ==
  /\ unit # NoCall
  /\ unit.fn = "file_to_binary"
  /\ unit' = [fn |-> "BuildFrame", arg |-> unit.ret,
              ret |-> BuildFrame(unit.ret), src |-> unit.ret]
  /\ UNCHANGED << wavFile, outFile, status, call, sent >>

\* The frame just built, parsed.
unit_ParseFrame ==
  /\ unit # NoCall
  /\ unit.fn = "BuildFrame"
  /\ unit' = [fn |-> "ParseFrame", arg |-> unit.ret,
              ret |-> ParseFrame(unit.ret), src |-> unit.src]
  /\ UNCHANGED << wavFile, outFile, status, call, sent >>

\* encode_rdft(bits)
unit_encode_rdft ==
  /\ unit = NoCall
  /\ \E bits \in UnitBits :
       unit' = [fn |-> "encode_rdft", arg |-> bits, ret |-> encode_rdft(bits), src |-> bits]
  /\ UNCHANGED << wavFile, outFile, status, call, sent >>

\* decode_rdft(wav_file)
unit_decode_rdft ==
  /\ unit = NoCall
  /\ \E wav_file \in UnitWavs :
       unit' = [fn |-> "decode_rdft", arg |-> wav_file, ret |-> decode_rdft(wav_file),
                src |-> wav_file]
  /\ UNCHANGED << wavFile, outFile, status, call, sent >>

\* The result is dropped and another call can be made.
unit_return ==
  /\ unit # NoCall
  /\ unit' = NoCall
  /\ UNCHANGED << wavFile, outFile, status, call, sent >>

NextFn ==
  \/ unit_file_to_binary \/ unit_binary_to_bytes \/ unit_BuildFrame \/ unit_ParseFrame
  \/ unit_encode_rdft \/ unit_decode_rdft \/ unit_return

SpecFn == Init /\ [][NextFn]_vars

\* ------------------------------------------------------------------------
\* Properties
\* ------------------------------------------------------------------------
\* The last handler decoded the program's own transmission.
DecodedOwn == call.op = "decode" /\ call.own /\ sent.valid

\* C1: noiseless round trip.  Decoding the file the encoder wrote, at the
\* rate it was written, demodulates exactly the transmitted bit string (every
\* '1' symbol correlates >= 0, every '0' symbol < 0) and writes exactly the
\* bytes that were encoded.
ModemRoundTrip ==
  DecodedOwn =>
    /\ call.rate = SAMPLE_RATE
    /\ ~call.warned
    /\ call.run.decoded.ok
    /\ call.run.decoded.value = sent.binary_data
    /\ status = MsgDecoded
    /\ outFile = [exists |-> TRUE, bytes |-> sent.bytes]

\* The byte 0x41 came back from its own transmission of 40 symbols.
ModemRoundTripWitness ==
  /\ DecodedOwn
  /\ sent.bytes = << 65 >>
  /\ Len(call.run.decoded.value) = HeaderBits + ByteBits
  /\ outFile = [exists |-> TRUE, bytes |-> << 65 >>]

\* C2: frame round trip.  The frame built around a payload whose length is a
\* multiple of 8 is 32 digits longer than the payload, its first 32 digits
\* read as the payload's length, and parsing it returns the payload.
FrameRoundTrip ==
  /\ (unit # NoCall /\ unit.fn = "BuildFrame") =>
       /\ Len(unit.arg) % ByteBits = 0
       /\ Len(unit.ret) = HeaderBits + Len(unit.arg)
       /\ ParseBin(SubSeq(unit.ret, 1, HeaderBits)) = Len(unit.arg)
       /\ SubSeq(unit.ret, HeaderBits + 1, Len(unit.ret)) = unit.arg
  /\ (unit # NoCall /\ unit.fn = "ParseFrame") =>
       /\ unit.ret.payload_length = Len(unit.src)
       /\ unit.ret.payload = unit.src

\* A 16 digit payload came back from its frame.
FrameRoundTripWitness ==
  /\ unit # NoCall
  /\ unit.fn = "ParseFrame"
  /\ Len(unit.src) = 2 * ByteBits
  /\ Len(unit.arg) = HeaderBits + 2 * ByteBits
  /\ unit.ret.payload = unit.src

\* Digit j (1 = most significant) of byte b.
BitOf(b, j) == IF (b \div (2 ^ (ByteBits - j))) % 2 = 1 THEN "1" ELSE "0"

\* C3: byte/bit round trip.  file_to_binary returns 8 digits per byte, each
\* byte most significant bit first, and binary_to_bytes of that string
\* returns the bytes.
ByteBitRoundTrip ==
  /\ (unit # NoCall /\ unit.fn = "file_to_binary") =>
       /\ Len(unit.ret) = ByteBits * Len(unit.arg)
       /\ \A k \in 1..Len(unit.arg) : \A j \in 1..ByteBits :
            unit.ret[ByteBits * (k - 1) + j] = BitOf(unit.arg[k], j)
  /\ (unit # NoCall /\ unit.fn = "binary_to_bytes") => unit.ret = unit.src

\* Two bytes, one of them with leading zero digits, came back from their bits.
ByteBitRoundTripWitness ==
  /\ unit # NoCall
  /\ unit.fn = "binary_to_bytes"
  /\ unit.src = << 65, 255 >>
  /\ Len(unit.arg) = 2 * ByteBits
  /\ unit.ret = << 65, 255 >>

\* The last handler demodulated fewer bits than a header has.
HeaderMissing(c) ==
  /\ c.op = "decode"
  /\ c.run.decoded.ok
  /\ Len(c.run.decoded.value) < HeaderBits

\* C4: truncated header.  A decoding run, from the command line or the GUI,
\* that demodulates fewer than 32 bits reports TruncatedHeaderError, parses no
\* header, does not call binary_to_bytes and leaves decoded_output.txt as it was.
TruncatedHeader ==
  [][ HeaderMissing(call') =>
        /\ status' = TruncatedHeaderError
        /\ ~call'.run.parsed
        /\ ~call'.run.packed
        /\ ~call'.run.wrote
        /\ outFile' = outFile ]_vars

\* browse_wav demodulated 31 bits while an earlier output file existed.
TruncatedHeaderWitness ==
  /\ HeaderMissing(call)
  /\ call.ui = "gui"
  /\ Len(call.run.decoded.value) = HeaderBits - 1
  /\ status = TruncatedHeaderError
  /\ outFile.exists

\* The last handler demodulated a header whose value is not a multiple of 8.
HeaderUnaligned(c) ==
  /\ c.op = "decode"
  /\ c.run.decoded.ok
  /\ Len(c.run.decoded.value) >= HeaderBits
  /\ ParseBin(SubSeq(c.run.decoded.value, 1, HeaderBits)) % ByteBits # 0

\* C5: unaligned payload.  A decoding run that demodulates at least 32 bits
\* and a header value that is not a multiple of 8 reports
\* UnalignedPayloadError, produces no bytes and leaves decoded_output.txt as it
\* was, however many payload bits follow the header.
UnalignedPayload ==
  [][ HeaderUnaligned(call') =>
        /\ status' = UnalignedPayloadError
        /\ ~call'.run.packed
        /\ ~call'.run.wrote
        /\ call'.run.output_bytes = << >>
        /\ outFile' = outFile ]_vars

\* A header declaring 4 bits, followed by 12 bits, was refused by the command
\* line while an earlier output file existed.
UnalignedPayloadWitness ==
  /\ HeaderUnaligned(call)
  /\ call.ui = "cli"
  /\ call.run.payload_length = 4
  /\ Len(call.run.decoded.value) = HeaderBits + 12
  /\ status = UnalignedPayloadError
  /\ outFile.exists

\* C6: the modulator has no failure mode.  encode_rdft returns a sample buffer
\* of samples_per_symbol samples per bit for every bit string, the empty
\* buffer for the empty bit string.
ModulatorTotal ==
  (unit # NoCall /\ unit.fn = "encode_rdft") =>
    /\ unit.ret.ok
    /\ Len(unit.ret.value) = SamplesPerSymbol(SAMPLE_RATE) * Len(unit.arg)

\* C7: a sample rate other than SAMPLE_RATE is not fatal.  Decoding a
\* readable file of any other rate warns, and the demodulator completes with
\* one bit per floor(rate / SYMBOL_RATE) samples.
RateMismatchNonFatal ==
  (call.op = "decode" /\ call.readable /\ call.rate # SAMPLE_RATE) =>
    /\ call.warned
    /\ call.run.decoded.ok
    /\ status # MsgDecodeError
    /\ Len(call.run.decoded.value) = call.samples \div SamplesPerSymbol(call.rate)

\* C8: byte reassembly gets whole bytes.  Whenever a decoding run calls
\* binary_to_bytes, the bit string it passes has a length that is a multiple
\* of 8, and every byte written comes from 8 bits.
PackerPrecondition ==
  (call.op = "decode" /\ call.run.packed) =>
    /\ Len(call.run.payload) % ByteBits = 0
    /\ ByteBits * Len(call.run.output_bytes) = Len(call.run.payload)

\* C9: demodulator output length.  For a buffer of len samples and
\* samples_per_symbol >= 1, decode_rdft returns floor(len / samples_per_symbol)
\* bits, the same bits as for the buffer without its trailing partial symbol.
DemodLength ==
  (unit # NoCall /\ unit.fn = "decode_rdft" /\ SamplesPerSymbol(unit.arg.rate) >= 1) =>
    LET sps == SamplesPerSymbol(unit.arg.rate)
        n == Len(unit.arg.data) \div sps
        whole == [unit.arg EXCEPT !.data = SubSeq(unit.arg.data, 1, n * sps)]
    IN  /\ unit.ret.ok
        /\ Len(unit.ret.value) = n
        /\ unit.ret.value = decode_rdft(whole).value

\* Three whole symbols at the nominal rate followed by three more samples
\* gave three bits.
DemodLengthWitness ==
  /\ unit # NoCall
  /\ unit.fn = "decode_rdft"
  /\ unit.arg.rate = SAMPLE_RATE
  /\ Len(unit.arg.data) = 3 * SamplesPerSymbol(SAMPLE_RATE) + 3
  /\ Len(unit.ret.value) = 3

\* C10: carrier cycling.  For every symbol of a transmission, modulator and
\* demodulator use the same carrier, CARRIER_FREQS[i mod len(CARRIER_FREQS)]
\* for symbol i counted from 0, so symbols len(CARRIER_FREQS) apart share it.
CarrierAgreement ==
  DecodedOwn =>
    /\ Len(call.freqs) = Len(sent.freqs)
    /\ \A k \in 1..Len(sent.freqs) :
         /\ call.freqs[k] = sent.freqs[k]
         /\ sent.freqs[k] = CARRIER_FREQS[((k - 1) % Len(CARRIER_FREQS)) + 1]
         /\ (k + Len(CARRIER_FREQS) <= Len(sent.freqs)) =>
              /\ sent.freqs[k + Len(CARRIER_FREQS)] = sent.freqs[k]
              /\ call.freqs[k + Len(CARRIER_FREQS)] = call.freqs[k]

\* A transmission longer than the carrier table was decoded: symbol 0 and
\* symbol len(CARRIER_FREQS) both went out, and were read, on the first carrier.
CarrierAgreementWitness ==
  /\ DecodedOwn
  /\ Len(sent.freqs) > Len(CARRIER_FREQS)
  /\ sent.freqs[1] = CARRIER_FREQS[1]
  /\ call.freqs[Len(CARRIER_FREQS) + 1] = CARRIER_FREQS[1]

====
